---- MODULE Spec2Model ----
(***************************************************************************)
(* The dashboard state container (src/src/context/DashboardProvider.tsx),  *)
(* its Data Access Client (src/src/services/apiClient.ts) and the pages    *)
(* that drive the container (src/src/app/Dashboard.tsx, UserDetails.tsx).  *)
(*                                                                         *)
(* Conventions                                                             *)
(*   - A nullable value (T | null) is a sequence of length 0 or 1:         *)
(*     Null is <<>>, a present value v is <<v>>.                           *)
(*   - A url is the sequence of its segments after the leading '/':        *)
(*     "/users" is <<"users">>, `/users/${id}` is <<"users", id>>, so      *)
(*     url.split('/')[2] is url[2].                                        *)
(*   - An array held by the container is a reference: either the module    *)
(*     level array mockUsers of apiClient.ts itself, or an array of its    *)
(*     own.  User objects are never written in place by the code, so they  *)
(*     are values.                                                         *)
(*   - A Date is the integer of its clock reading.                         *)
(*   - One step of the model is one turn of the event loop: the            *)
(*     synchronous part of a handler up to its await, or the continuation  *)
(*     of a settled call with every dispatch it makes.                     *)
(***************************************************************************)
EXTENDS Integers, Sequences, FiniteSets, TLC

VARIABLES
    state,      \* the reducer state of useReducer (DashboardState)
    mockUsers,  \* the module-level fixture array of apiClient.ts
    client,     \* which ApiClient the provider is bound to
    inflight,   \* the intents awaiting their client call, in call order
    now,        \* the clock reading, Date.now()
    started,    \* how many asynchronous intents have been invoked
    page,       \* the page component rendered inside the provider, if any
    last        \* the step taken last: its handler, outcome and dispatches

vars == <<state, mockUsers, client, inflight, now, started, page, last>>

----------------------------------------------------------------------------
(* Bounds of the model *)

MaxIntents == 3     \* asynchronous intents invoked in one run
MaxInFlight == 2    \* asynchronous intents awaiting their call at once
ClockStart == 1000  \* the clock reading when the page is opened
Gap == 250          \* the time a caller may let pass before an intent
MaxCalls == 3       \* client operations a script awaits one after another
MaxDispatches == 4  \* actions dispatched to the reducer alone
MaxPending == 4     \* intents the Dashboard page may have in flight at once
MaxAwaited == 2     \* intents the UserDetails page may have in flight at once

----------------------------------------------------------------------------
(* Values *)

\* the provider rendered with no page component below it (renderHook)
NoPage == [name |-> "none"]

Null == <<>>
Some(v) == <<v>>

\* a payload that is null or undefined (data: unknown admits it)
Undefined == [undefined |-> TRUE]

Max(a, b) == IF a >= b THEN a ELSE b

\* `https://i.pravatar.cc/150?img=${n}` is one-to-one in n: the avatar is n.
User(id, name, email, role, isActive, avatar, createdAt, lastLogin) ==
    [id |-> id, name |-> name, email |-> email, role |-> role,
     isActive |-> isActive, avatar |-> avatar, createdAt |-> createdAt,
     lastLogin |-> lastLogin]

initialMockUsers ==
    << User("1", "John Doe", "john@example.com", "admin", TRUE,
            Some(1), 20230115, Some(20240110)),
       User("2", "Jane Smith", "jane@example.com", "user", TRUE,
            Some(2), 20230220, Some(20240109)),
       User("3", "Bob Johnson", "bob@example.com", "moderator", FALSE,
            Some(3), 20230310, Some(20240108)) >>

\* value and changePercent are kept in tenths (35.2 is 352, -5.1 is -51);
\* the timestamp new Date() of module load is the clock at start.
mockMetrics ==
    << [id |-> "1", name |-> "Active Users", value |-> 12500, unit |-> "users",
        trend |-> "up", changePercent |-> 125, timestamp |-> ClockStart],
       [id |-> "2", name |-> "Page Views", value |-> 456000, unit |-> "views",
        trend |-> "up", changePercent |-> 83, timestamp |-> ClockStart],
       [id |-> "3", name |-> "Bounce Rate", value |-> 352, unit |-> "%",
        trend |-> "down", changePercent |-> -51, timestamp |-> ClockStart] >>

\* An array reference held by the container.
FixtureRef == [fixture |-> TRUE, elems |-> <<>>]
Own(seq) == [fixture |-> FALSE, elems |-> seq]

\* The elements an array reference shows when the fixture array holds fx.
Elems(arr, fx) == IF arr.fixture THEN fx ELSE arr.elems

ApiResponse(data, message, success) ==
    [data |-> data, message |-> message, success |-> success]

----------------------------------------------------------------------------
(* Sequence helpers: Array.prototype.map / filter / findIndex / splice *)

RECURSIVE FilterSeq(_, _)
FilterSeq(seq, id) ==
    IF seq = <<>> THEN <<>>
    ELSE IF Head(seq).id # id
         THEN <<Head(seq)>> \o FilterSeq(Tail(seq), id)
         ELSE FilterSeq(Tail(seq), id)

\* with a map that adds the payload when no entry carries its id
MapReplace_Upserts(seq, payload) ==
    IF \E i \in 1..Len(seq) : seq[i].id = payload.id
    THEN [i \in 1..Len(seq) |-> IF seq[i].id = payload.id THEN payload ELSE seq[i]]
    ELSE Append(seq, payload)

\* with a map that moves the replaced entry to the end
MapReplace_MovesLast(seq, payload) ==
    IF \E i \in 1..Len(seq) : seq[i].id = payload.id
    THEN Append(SelectSeq(seq, LAMBDA u : u.id # payload.id), payload)
    ELSE seq

MapReplace(seq, payload) ==
    [i \in 1..Len(seq) |-> IF seq[i].id = payload.id THEN payload ELSE seq[i]]

\* findIndex: the first index (1-based) whose id matches, 0 for -1.
FindIndex(seq, id) ==
    IF \E i \in 1..Len(seq) : seq[i].id = id
    THEN CHOOSE i \in 1..Len(seq) :
            /\ seq[i].id = id
            /\ \A j \in 1..(i-1) : seq[j].id # id
    ELSE 0

\* splice(index, 1)
Splice(seq, i) == SubSeq(seq, 1, i-1) \o SubSeq(seq, i+1, Len(seq))

----------------------------------------------------------------------------
(* The reducer, DashboardProvider.tsx:16-54.  fx is what the fixture array *)
(* holds when the reducer runs (state.users may be that very array).       *)

initialState_Loading ==
    [users |-> Own(<<>>), metrics |-> <<>>, isLoading |-> TRUE,
     error |-> Null, selectedUser |-> Null]

initialState ==
    [users |-> Own(<<>>), metrics |-> <<>>, isLoading |-> FALSE,
     error |-> Null, selectedUser |-> Null]

Action(type, payload) == [type |-> type, payload |-> payload]

\* state.selectedUser?.id === action.payload ? null : state.selectedUser
SelectionAfterDelete_Keeps(selectedUser, id) == selectedUser

SelectionAfterDelete_ClearsAlways(selectedUser, id) == Null

SelectionAfterDelete(selectedUser, id) ==
    IF selectedUser # Null /\ selectedUser[1].id = id THEN Null ELSE selectedUser

\* with a SET_USERS that also clears the error
dashboardReducer_SetUsersClearsError(s, action, fx) ==
    CASE action.type = "SET_LOADING" ->
            [s EXCEPT !.isLoading = action.payload]
      [] action.type = "SET_ERROR" ->
            [s EXCEPT !.error = action.payload]
      [] action.type = "SET_USERS" ->
            [s EXCEPT !.users = action.payload, !.error = Null]
      [] action.type = "SET_METRICS" ->
            [s EXCEPT !.metrics = action.payload]
      [] action.type = "SELECT_USER" ->
            [s EXCEPT !.selectedUser = action.payload]
      [] action.type = "ADD_USER" ->
            [s EXCEPT !.users = Own(Append(Elems(s.users, fx), action.payload))]
      [] action.type = "UPDATE_USER" ->
            [s EXCEPT !.users = Own(MapReplace(Elems(s.users, fx), action.payload))]
      [] action.type = "DELETE_USER" ->
            [s EXCEPT !.users = Own(FilterSeq(Elems(s.users, fx), action.payload)),
                      !.selectedUser =
                          SelectionAfterDelete(s.selectedUser, action.payload)]
      [] OTHER -> s

dashboardReducer(s, action, fx) ==
    CASE action.type = "SET_LOADING" ->
            [s EXCEPT !.isLoading = action.payload]
      [] action.type = "SET_ERROR" ->
            [s EXCEPT !.error = action.payload]
      [] action.type = "SET_USERS" ->
            [s EXCEPT !.users = action.payload]
      [] action.type = "SET_METRICS" ->
            [s EXCEPT !.metrics = action.payload]
      [] action.type = "SELECT_USER" ->
            [s EXCEPT !.selectedUser = action.payload]
      [] action.type = "ADD_USER" ->
            [s EXCEPT !.users = Own(Append(Elems(s.users, fx), action.payload))]
      [] action.type = "UPDATE_USER" ->
            [s EXCEPT !.users = Own(MapReplace(Elems(s.users, fx), action.payload))]
      [] action.type = "DELETE_USER" ->
            [s EXCEPT !.users = Own(FilterSeq(Elems(s.users, fx), action.payload)),
                      !.selectedUser =
                          SelectionAfterDelete(s.selectedUser, action.payload)]
      [] OTHER -> s

\* dispatch, called once per element of actions, in order.
RECURSIVE Dispatch(_, _, _)
Dispatch(s, actions, fx) ==
    IF actions = <<>> THEN s
    ELSE Dispatch(dashboardReducer(s, Head(actions), fx), Tail(actions), fx)

----------------------------------------------------------------------------
(* MockApiClient, apiClient.ts:182-298.  Each operation is the part after  *)
(* its await this.delay(..): it yields the envelope and what the fixture   *)
(* array holds afterwards.                                                 *)

GetDelay == 500     \* await this.delay(500) of get
WriteDelay == 300   \* await this.delay(300) of post, put and delete

\* what an operation threw, if it threw
Thrown(isError, message) == [isError |-> isError, message |-> message]

MockResult(fx, response) == [fixture |-> fx, response |-> response, thrown |-> Null]

\* the async method threw after its delay: its promise rejects
MockThrows(fx, thrown) ==
    [fixture |-> fx, response |-> ApiResponse(Null, "", FALSE), thrown |-> Some(thrown)]

StartsWithUsers(url) == Len(url) >= 2 /\ url[1] = "users"

\* data: mockUsers hands out the fixture array itself, not a copy.
MockApiClient_get(url, fx) ==
    IF url = <<"users">>
    THEN MockResult(fx, ApiResponse(Some(FixtureRef), "Users fetched successfully", TRUE))
    ELSE IF url = <<"metrics">>
    THEN MockResult(fx, ApiResponse(Some(mockMetrics), "Metrics fetched successfully", TRUE))
    ELSE MockResult(fx, ApiResponse(Null, "Not found", FALSE))

\* t is the clock reading of Date.now() and of new Date(), taken in the
\* same synchronous block; img is Math.floor(Math.random() * 10).
NewUser(userData, t, img) ==
    User(ToString(t), userData.name, userData.email, userData.role,
         userData.isActive, Some(img), t, Null)

\* with unshift in place of push
MockApiClient_post_Unshift(url, data, fx, t, img) ==
    IF url = <<"users">>
    THEN LET newUser == NewUser(data, t, img)
         IN MockResult(<<newUser>> \o fx,
                       ApiResponse(Some(newUser), "User created successfully", TRUE))
    ELSE MockResult(fx, ApiResponse(Null, "Not implemented", FALSE))

MockApiClient_post(url, data, fx, t, img) ==
    IF url = <<"users">>
    THEN LET newUser == NewUser(data, t, img)
         IN MockResult(Append(fx, newUser),
                       ApiResponse(Some(newUser), "User created successfully", TRUE))
    ELSE MockResult(fx, ApiResponse(Null, "Not implemented", FALSE))

\* userData.f ?? existingUser.f
Coalesce(opt, prior) == IF opt # Null THEN opt[1] ELSE prior

\* with || in place of ??: a falsy value of the payload falls back as well
MergeUser_FalsyFallsBack(existingUser, userData) ==
    User(existingUser.id,
         Coalesce(userData.name, existingUser.name),
         Coalesce(userData.email, existingUser.email),
         Coalesce(userData.role, existingUser.role),
         IF userData.isActive # Null /\ userData.isActive[1]
         THEN TRUE ELSE existingUser.isActive,
         existingUser.avatar, existingUser.createdAt, existingUser.lastLogin)

MergeUser(existingUser, userData) ==
    User(existingUser.id,
         Coalesce(userData.name, existingUser.name),
         Coalesce(userData.email, existingUser.email),
         Coalesce(userData.role, existingUser.role),
         Coalesce(userData.isActive, existingUser.isActive),
         existingUser.avatar, existingUser.createdAt, existingUser.lastLogin)

MockApiClient_put(url, data, fx) ==
    LET userIndex == IF StartsWithUsers(url) THEN FindIndex(fx, url[2]) ELSE 0
    IN IF userIndex # 0
       THEN IF data = Undefined
            THEN \* userData.name of null or undefined: a TypeError
                 MockThrows(fx, Thrown(TRUE, "Cannot read properties of undefined"))
            ELSE LET updatedUser == MergeUser(fx[userIndex], data)
                 IN MockResult([fx EXCEPT ![userIndex] = updatedUser],
                               ApiResponse(Some(updatedUser), "User updated successfully", TRUE))
       ELSE MockResult(fx, ApiResponse(Null, "User not found", FALSE))

\* without the userIndex !== -1 test: splice(-1, 1) removes the last element
MockApiClient_delete_NoIndexCheck(url, fx) ==
    LET userIndex == IF StartsWithUsers(url) THEN FindIndex(fx, url[2]) ELSE 0
        target == IF userIndex # 0 THEN userIndex ELSE Len(fx)
    IN MockResult(IF fx = <<>> THEN fx ELSE Splice(fx, target),
                  ApiResponse(Some([id |-> url[2]]), "User deleted successfully", TRUE))

MockApiClient_delete(url, fx) ==
    LET userIndex == IF StartsWithUsers(url) THEN FindIndex(fx, url[2]) ELSE 0
    IN IF userIndex # 0
       THEN MockResult(Splice(fx, userIndex),
                       ApiResponse(Some([id |-> url[2]]), "User deleted successfully", TRUE))
       ELSE MockResult(fx, ApiResponse(Null, "User not found", FALSE))

----------------------------------------------------------------------------
(* ApiClientImpl, apiClient.ts:3-115.  f is what fetch and response.json() *)
(* did: the transport is outside the program.                              *)

FetchOk(json) == [kind |-> "ok", status |-> 200, json |-> json, message |-> ""]
FetchStatus(status) == [kind |-> "status", status |-> status, json |-> Null, message |-> ""]
FetchThrows(message) == [kind |-> "throws", status |-> 0, json |-> Null, message |-> message]
FetchThrowsNonError == [kind |-> "throwsNonError", status |-> 0, json |-> Null, message |-> ""]
JsonThrows(message) == [kind |-> "jsonThrows", status |-> 200, json |-> Null, message |-> message]

\* try { fetch; if (!response.ok) throw; data = await response.json();
\*       return success } catch (error) { return failure }
ApiClientImpl_request(f) ==
    IF f.kind = "ok"
    THEN ApiResponse(f.json, "Success", TRUE)
    ELSE IF f.kind = "status"
    THEN ApiResponse(Null, "HTTP error! status: " \o ToString(f.status), FALSE)
    ELSE IF f.kind = "throwsNonError"
    THEN ApiResponse(Null, "Unknown error", FALSE)
    ELSE ApiResponse(Null, f.message, FALSE)

ApiClientImpl_get(f) == ApiClientImpl_request(f)
ApiClientImpl_post(f) == ApiClientImpl_request(f)
ApiClientImpl_put(f) == ApiClientImpl_request(f)
ApiClientImpl_delete(f) == ApiClientImpl_request(f)

----------------------------------------------------------------------------
(* What an intent sees when its awaited client call settles. *)

NothingThrown == Thrown(FALSE, "")
NoResponse == ApiResponse(Null, "", FALSE)

Resolved(response) == [rejected |-> FALSE, response |-> response, thrown |-> NothingThrown]
Rejected(thrown) == [rejected |-> TRUE, response |-> NoResponse, thrown |-> thrown]

\* response.message || fallback
MessageOr(message, fallback) == IF message # "" THEN message ELSE fallback

\* error instanceof Error ? error.message : 'Unknown error'
ErrorMessage(thrown) == IF thrown.isError THEN thrown.message ELSE "Unknown error"

\* What a handler did after its await: the actions it dispatched, in
\* order, and whether its promise rejected (throw error in the catch).
Handled(dispatched, rethrown) == [dispatched |-> dispatched, rethrown |-> rethrown]

\* The first two statements of every asynchronous intent.
Prologue_KeepsError == << Action("SET_LOADING", TRUE) >>

Prologue == << Action("SET_LOADING", TRUE), Action("SET_ERROR", Null) >>

\* DashboardProvider.tsx:87-101
loadUsersSettled_NoFinallyOnError(outcome) ==
    LET response == outcome.response
        caught == IF outcome.rejected THEN Some(outcome.thrown)
                  ELSE IF response.success /\ response.data # Null THEN Null
                  ELSE Some(Thrown(TRUE, MessageOr(response.message, "Failed to load users")))
    IN IF caught = Null
       THEN Handled(<< Action("SET_USERS", response.data[1]),
                       Action("SET_LOADING", FALSE) >>, FALSE)
       ELSE Handled(<< Action("SET_ERROR", Some(ErrorMessage(caught[1]))) >>, FALSE)

\* with a successful load of the users that also empties the metrics
loadUsersSettled_ResetsMetrics(outcome) ==
    LET response == outcome.response
        caught == IF outcome.rejected THEN Some(outcome.thrown)
                  ELSE IF response.success /\ response.data # Null THEN Null
                  ELSE Some(Thrown(TRUE, MessageOr(response.message, "Failed to load users")))
    IN IF caught = Null
       THEN Handled(<< Action("SET_USERS", response.data[1]),
                       Action("SET_METRICS", <<>>),
                       Action("SET_LOADING", FALSE) >>, FALSE)
       ELSE Handled(<< Action("SET_ERROR", Some(ErrorMessage(caught[1]))),
                       Action("SET_LOADING", FALSE) >>, FALSE)

loadUsersSettled(outcome) ==
    LET response == outcome.response
        caught == IF outcome.rejected THEN Some(outcome.thrown)
                  ELSE IF response.success /\ response.data # Null THEN Null
                  ELSE Some(Thrown(TRUE, MessageOr(response.message, "Failed to load users")))
    IN IF caught = Null
       THEN Handled(<< Action("SET_USERS", response.data[1]),
                       Action("SET_LOADING", FALSE) >>, FALSE)
       ELSE Handled(<< Action("SET_ERROR", Some(ErrorMessage(caught[1]))),
                       Action("SET_LOADING", FALSE) >>, FALSE)

\* DashboardProvider.tsx:110-124
loadMetricsSettled_ClearsOnFailure(outcome) ==
    LET response == outcome.response
        caught == IF outcome.rejected THEN Some(outcome.thrown)
                  ELSE IF response.success /\ response.data # Null THEN Null
                  ELSE Some(Thrown(TRUE, MessageOr(response.message, "Failed to load metrics")))
    IN IF caught = Null
       THEN Handled(<< Action("SET_METRICS", response.data[1]),
                       Action("SET_LOADING", FALSE) >>, FALSE)
       ELSE Handled(<< Action("SET_METRICS", <<>>),
                       Action("SET_ERROR", Some(ErrorMessage(caught[1]))),
                       Action("SET_LOADING", FALSE) >>, FALSE)

loadMetricsSettled(outcome) ==
    LET response == outcome.response
        caught == IF outcome.rejected THEN Some(outcome.thrown)
                  ELSE IF response.success /\ response.data # Null THEN Null
                  ELSE Some(Thrown(TRUE, MessageOr(response.message, "Failed to load metrics")))
    IN IF caught = Null
       THEN Handled(<< Action("SET_METRICS", response.data[1]),
                       Action("SET_LOADING", FALSE) >>, FALSE)
       ELSE Handled(<< Action("SET_ERROR", Some(ErrorMessage(caught[1]))),
                       Action("SET_LOADING", FALSE) >>, FALSE)

\* DashboardProvider.tsx:138-153
addUserSettled_NoRethrow(outcome) ==
    LET response == outcome.response
        caught == IF outcome.rejected THEN Some(outcome.thrown)
                  ELSE IF response.success /\ response.data # Null THEN Null
                  ELSE Some(Thrown(TRUE, MessageOr(response.message, "Failed to create user")))
    IN IF caught = Null
       THEN Handled(<< Action("ADD_USER", response.data[1]),
                       Action("SET_LOADING", FALSE) >>, FALSE)
       ELSE Handled(<< Action("SET_ERROR", Some(ErrorMessage(caught[1]))),
                       Action("SET_LOADING", FALSE) >>, FALSE)

addUserSettled(outcome) ==
    LET response == outcome.response
        caught == IF outcome.rejected THEN Some(outcome.thrown)
                  ELSE IF response.success /\ response.data # Null THEN Null
                  ELSE Some(Thrown(TRUE, MessageOr(response.message, "Failed to create user")))
    IN IF caught = Null
       THEN Handled(<< Action("ADD_USER", response.data[1]),
                       Action("SET_LOADING", FALSE) >>, FALSE)
       ELSE Handled(<< Action("SET_ERROR", Some(ErrorMessage(caught[1]))),
                       Action("SET_LOADING", FALSE) >>, TRUE)

\* DashboardProvider.tsx:162-177
updateUserSettled_NoTransition(outcome) ==
    LET response == outcome.response
        caught == IF outcome.rejected THEN Some(outcome.thrown)
                  ELSE IF response.success /\ response.data # Null THEN Null
                  ELSE Some(Thrown(TRUE, MessageOr(response.message, "Failed to update user")))
    IN IF caught = Null
       THEN Handled(<< Action("SET_LOADING", FALSE) >>, FALSE)
       ELSE Handled(<< Action("SET_ERROR", Some(ErrorMessage(caught[1]))),
                       Action("SET_LOADING", FALSE) >>, TRUE)

updateUserSettled(outcome) ==
    LET response == outcome.response
        caught == IF outcome.rejected THEN Some(outcome.thrown)
                  ELSE IF response.success /\ response.data # Null THEN Null
                  ELSE Some(Thrown(TRUE, MessageOr(response.message, "Failed to update user")))
    IN IF caught = Null
       THEN Handled(<< Action("UPDATE_USER", response.data[1]),
                       Action("SET_LOADING", FALSE) >>, FALSE)
       ELSE Handled(<< Action("SET_ERROR", Some(ErrorMessage(caught[1]))),
                       Action("SET_LOADING", FALSE) >>, TRUE)

\* DashboardProvider.tsx:186-201; the payload of DELETE_USER is the id the
\* intent was called with, and success alone decides.
deleteUserSettled_LoadingResetInTry(id, outcome) ==
    LET response == outcome.response
        caught == IF outcome.rejected THEN Some(outcome.thrown)
                  ELSE IF response.success THEN Null
                  ELSE Some(Thrown(TRUE, MessageOr(response.message, "Failed to delete user")))
    IN IF caught = Null
       THEN Handled(<< Action("DELETE_USER", id),
                       Action("SET_LOADING", FALSE) >>, FALSE)
       ELSE Handled(<< Action("SET_LOADING", FALSE),
                       Action("SET_ERROR", Some(ErrorMessage(caught[1]))) >>, TRUE)

deleteUserSettled(id, outcome) ==
    LET response == outcome.response
        caught == IF outcome.rejected THEN Some(outcome.thrown)
                  ELSE IF response.success THEN Null
                  ELSE Some(Thrown(TRUE, MessageOr(response.message, "Failed to delete user")))
    IN IF caught = Null
       THEN Handled(<< Action("DELETE_USER", id),
                       Action("SET_LOADING", FALSE) >>, FALSE)
       ELSE Handled(<< Action("SET_ERROR", Some(ErrorMessage(caught[1]))),
                       Action("SET_LOADING", FALSE) >>, TRUE)

----------------------------------------------------------------------------
(* Inputs of the intents and answers of the environment, from small sets. *)

\* the user of tests/hooks/useDashboard.test.tsx:55-62, never stored anywhere
testUser == User("1", "Test User", "test@example.com", "user", TRUE, Null, ClockStart, Null)

\* UserFormData of Scenario A
FormInputs == { [name |-> "Jane", email |-> "jane@x.com", role |-> "user", isActive |-> TRUE] }

\* Partial<UserFormData>: a field left out is Null
Patch(name, email, role, isActive) ==
    [name |-> name, email |-> email, role |-> role, isActive |-> isActive]
PatchInputs == { Patch(Some("X"), Null, Null, Some(FALSE)) }

MissingId == "missing-id"

FixtureIds == { initialMockUsers[i].id : i \in 1..Len(initialMockUsers) }

Users == Elems(state.users, mockUsers)

IdsOf(seq) == { seq[i].id : i \in 1..Len(seq) }

\* identifiers a caller passes to updateUser: John Doe's (listed or not,
\* deleted or not) and those of the created users on display
UpdateIds == {"1"} \cup (IdsOf(Users) \ FixtureIds)

\* identifiers a caller passes to deleteUser: the same, and one that never
\* existed (Scenario B)
DeleteIds == UpdateIds \cup {MissingId}

\* users a caller passes to selectUser: none, a user of its own making, or
\* the displayed entry of John Doe (Dashboard.tsx:47-49)
SelectInputs ==
    {Null, Some(testUser)} \cup { Some(Users[i]) : i \in { j \in 1..Len(Users) : Users[j].id = "1" } }

\* Math.floor(Math.random() * 10), one of its ten values
AvatarImgs == {7}

\* what a remote server holds and answers
remoteUser == User("7", "Remote User", "remote@example.com", "user", TRUE, Null, ClockStart, Null)
RemoteGetJson(url) ==
    IF url = <<"users">> THEN {Some(Own(<<>>)), Some(Own(<<remoteUser>>)), Null}
    ELSE IF url = <<"metrics">> THEN {Some(<<mockMetrics[1]>>)}
    ELSE {Null}
RemotePostJson(url, data) ==
    {Some(User("8", data.name, data.email, data.role, data.isActive, Null, ClockStart, Null))}
RemotePutJson(url, data) ==
    IF StartsWithUsers(url) /\ data # Undefined
    THEN {Some(MergeUser([remoteUser EXCEPT !.id = url[2]], data))}
    ELSE {Null}
RemoteDeleteJson(url) ==
    IF StartsWithUsers(url) THEN {Some([id |-> url[2]])} ELSE {Null}

\* what fetch and response.json() may do for a request answered by json
Fetches(jsons) ==
    { FetchOk(j) : j \in jsons }
    \cup { FetchStatus(500), FetchThrows("network error"), FetchThrowsNonError,
           JsonThrows("Unexpected end of JSON input") }

\* A test double of ApiClient (vi.fn() in the tests): any envelope, with or
\* without a message, or a rejected promise.
StubOutcomes(jsons) ==
    { Resolved(ApiResponse(j, "Success", TRUE)) : j \in jsons }
    \cup { Resolved(ApiResponse(Null, "API Error", FALSE)),
           Resolved(ApiResponse(Null, "", FALSE)),
           Rejected(Thrown(TRUE, "boom")),
           Rejected(Thrown(FALSE, "")) }

----------------------------------------------------------------------------
(* apiClient, apiClient.ts:301-303, bound to one of the clients.  Each     *)
(* operation gives the ways its call can settle: the envelope or the       *)
(* rejection, and what the fixture array holds afterwards.                 *)

Settled(fx, outcome) == [fixture |-> fx, outcome |-> outcome]

FromMock(r) ==
    Settled(r.fixture, IF r.thrown = Null THEN Resolved(r.response)
                       ELSE Rejected(r.thrown[1]))

apiClient_get(url) ==
    IF client = "mock" THEN { FromMock(MockApiClient_get(url, mockUsers)) }
    ELSE IF client = "impl"
    THEN { Settled(mockUsers, Resolved(ApiClientImpl_get(f))) : f \in Fetches(RemoteGetJson(url)) }
    ELSE { Settled(mockUsers, o) : o \in StubOutcomes(RemoteGetJson(url)) }

apiClient_post(url, data, t) ==
    IF client = "mock"
    THEN { FromMock(MockApiClient_post(url, data, mockUsers, t, img)) : img \in AvatarImgs }
    ELSE IF client = "impl"
    THEN { Settled(mockUsers, Resolved(ApiClientImpl_post(f))) : f \in Fetches(RemotePostJson(url, data)) }
    ELSE { Settled(mockUsers, o) : o \in StubOutcomes(RemotePostJson(url, data)) }

apiClient_put(url, data) ==
    IF client = "mock" THEN { FromMock(MockApiClient_put(url, data, mockUsers)) }
    ELSE IF client = "impl"
    THEN { Settled(mockUsers, Resolved(ApiClientImpl_put(f))) : f \in Fetches(RemotePutJson(url, data)) }
    ELSE { Settled(mockUsers, o) : o \in StubOutcomes(RemotePutJson(url, data)) }

apiClient_delete(url) ==
    IF client = "mock" THEN { FromMock(MockApiClient_delete(url, mockUsers)) }
    ELSE IF client = "impl"
    THEN { Settled(mockUsers, Resolved(ApiClientImpl_delete(f))) : f \in Fetches(RemoteDeleteJson(url)) }
    ELSE { Settled(mockUsers, o) : o \in StubOutcomes(RemoteDeleteJson(url)) }

----------------------------------------------------------------------------
(* The state machine *)

Intent(op, id, data, due) == [op |-> op, id |-> id, data |-> data, due |-> due]

\* The snapshot an observer reads: state.users read through its reference.
Snapshot(s, fx) ==
    [users |-> Elems(s.users, fx), metrics |-> s.metrics, isLoading |-> s.isLoading,
     error |-> s.error, selectedUser |-> s.selectedUser]

\* which intents a sequence holds, and how many of each: an intent is
\* named by its handler and its target
KeysOf(seq) == { <<seq[k].op, seq[k].id>> : k \in 1..Len(seq) }
Count(seq, key) == Cardinality({ k \in 1..Len(seq) : <<seq[k].op, seq[k].id>> = key })
KeyBag(seq) == [key \in KeysOf(seq) |-> Count(seq, key)]

\* The record of one step: which handler ran, for which intent, the
\* snapshot it started from, what it dispatched and how it ended.  data is
\* the payload the intent was called with, fixtureBefore the fixture array
\* when the step began, and afterCall the users collection the snapshot of
\* the step's start shows once the client call has returned, before any
\* action of the continuation is dispatched.  keysBefore holds the intents
\* that were in flight when the step began.
Step(step, op, id, dispatched, rethrown, outcome) ==
    [step |-> step, op |-> op, id |-> id, dispatched |-> dispatched,
     rethrown |-> rethrown, outcome |-> outcome,
     before |-> Snapshot(state, mockUsers),
     data |-> Null, fixtureBefore |-> mockUsers,
     afterCall |-> Elems(state.users, mockUsers),
     keysBefore |-> KeyBag(inflight)]

Init ==
    /\ state = initialState
    /\ mockUsers = initialMockUsers
    /\ client \in {"mock", "impl", "stub"}
    /\ inflight = <<>>
    /\ now = ClockStart
    /\ started = 0
    /\ page = NoPage
    /\ last = Step("init", "", "", <<>>, FALSE, Resolved(NoResponse))

\* A caller may let time pass before it invokes an intent.  With no timer
\* pending that only shifts every later clock reading by the same amount;
\* and a call of get (the longer delay) started after the pending calls
\* settles after them whether the caller waited or not.
Waits(ms) ==
    IF client = "mock" /\ inflight # <<>> /\ ms = WriteDelay THEN {0, Gap} ELSE {0}

\* setTimeout of this.delay(ms); the remote clients settle when they settle
DueAt(t, ms) == IF client = "mock" THEN t + ms ELSE t

\* timers fire in the order of their due time, then of their creation
CanSettle(i) ==
    client = "mock" =>
        \A j \in 1..Len(inflight) :
            j # i => \/ inflight[i].due < inflight[j].due
                     \/ inflight[i].due = inflight[j].due /\ i < j

\* the synchronous part of an asynchronous intent, up to its await
Begin(op, id, data, ms, wait) ==
    /\ started < MaxIntents
    /\ Len(inflight) < MaxInFlight
    /\ now' = now + wait
    /\ inflight' = Append(inflight, Intent(op, id, data, DueAt(now + wait, ms)))
    /\ state' = Dispatch(state, Prologue, mockUsers)
    /\ started' = started + 1
    /\ last' = Step("call", op, id, Prologue, FALSE, Resolved(NoResponse))
    /\ UNCHANGED <<mockUsers, client, page>>

\* with a continuation that drops the other intents in flight
Finish_CancelsOthers(i, r, handled) ==
    /\ mockUsers' = r.fixture
    /\ state' = Dispatch(state, handled.dispatched, r.fixture)
    /\ inflight' = <<>>
    /\ now' = Max(now, inflight[i].due)
    /\ last' = [Step("settle", inflight[i].op, inflight[i].id, handled.dispatched,
                     handled.rethrown, r.outcome)
                    EXCEPT !.data = inflight[i].data,
                           !.afterCall = Elems(state.users, r.fixture)]
    /\ UNCHANGED <<client, started, page>>

\* the continuation of intent i once its call has settled as r
Finish(i, r, handled) ==
    /\ mockUsers' = r.fixture
    /\ state' = Dispatch(state, handled.dispatched, r.fixture)
    /\ inflight' = Splice(inflight, i)
    /\ now' = Max(now, inflight[i].due)
    /\ last' = [Step("settle", inflight[i].op, inflight[i].id, handled.dispatched,
                     handled.rethrown, r.outcome)
                    EXCEPT !.data = inflight[i].data,
                           !.afterCall = Elems(state.users, r.fixture)]
    /\ UNCHANGED <<client, started, page>>

\* DashboardProvider.tsx:81-87
loadUsers == \E wait \in Waits(GetDelay) : Begin("loadUsers", "", Null, GetDelay, wait)

\* DashboardProvider.tsx:104-110
loadMetrics == \E wait \in Waits(GetDelay) : Begin("loadMetrics", "", Null, GetDelay, wait)

\* DashboardProvider.tsx:132-138
addUser ==
    \E wait \in Waits(WriteDelay), userData \in FormInputs :
        Begin("addUser", "", Some(userData), WriteDelay, wait)

\* DashboardProvider.tsx:156-162
updateUser ==
    \E wait \in Waits(WriteDelay), id \in UpdateIds, userData \in PatchInputs :
        Begin("updateUser", id, Some(userData), WriteDelay, wait)

\* DashboardProvider.tsx:180-186
deleteUser ==
    \E wait \in Waits(WriteDelay), id \in DeleteIds :
        Begin("deleteUser", id, Null, WriteDelay, wait)

\* DashboardProvider.tsx:127-130
selectUser_SetsLoading ==
    \E user \in SelectInputs :
        /\ state' = Dispatch(state, <<Action("SELECT_USER", user),
                                     Action("SET_LOADING", TRUE)>>, mockUsers)
        /\ last' = Step("select", "selectUser", "", <<Action("SELECT_USER", user),
                        Action("SET_LOADING", TRUE)>>, FALSE, Resolved(NoResponse))
        /\ UNCHANGED <<mockUsers, client, inflight, now, started, page>>

selectUser ==
    \E user \in SelectInputs :
        /\ state' = Dispatch(state, <<Action("SELECT_USER", user)>>, mockUsers)
        /\ last' = Step("select", "selectUser", "", <<Action("SELECT_USER", user)>>,
                        FALSE, Resolved(NoResponse))
        /\ UNCHANGED <<mockUsers, client, inflight, now, started, page>>

Awaiting(op) == { i \in 1..Len(inflight) : inflight[i].op = op /\ CanSettle(i) }

loadUsersResume ==
    \E i \in Awaiting("loadUsers") : \E r \in apiClient_get(<<"users">>) :
        Finish(i, r, loadUsersSettled(r.outcome))

loadMetricsResume ==
    \E i \in Awaiting("loadMetrics") : \E r \in apiClient_get(<<"metrics">>) :
        Finish(i, r, loadMetricsSettled(r.outcome))

addUserResume ==
    \E i \in Awaiting("addUser") :
        \E r \in apiClient_post(<<"users">>, inflight[i].data[1], Max(now, inflight[i].due)) :
            Finish(i, r, addUserSettled(r.outcome))

updateUserResume ==
    \E i \in Awaiting("updateUser") :
        \E r \in apiClient_put(<<"users", inflight[i].id>>, inflight[i].data[1]) :
            Finish(i, r, updateUserSettled(r.outcome))

deleteUserResume ==
    \E i \in Awaiting("deleteUser") :
        \E r \in apiClient_delete(<<"users", inflight[i].id>>) :
            Finish(i, r, deleteUserSettled(inflight[i].id, r.outcome))

Next ==
    \/ loadUsers
    \/ loadMetrics
    \/ selectUser
    \/ addUser
    \/ updateUser
    \/ deleteUser
    \/ loadUsersResume
    \/ loadMetricsResume
    \/ addUserResume
    \/ updateUserResume
    \/ deleteUserResume

Spec == Init /\ [][Next]_vars

----------------------------------------------------------------------------
(* The client called directly, as tests/services/apiClient.test.ts does:   *)
(* a script awaits one operation after another.  The container takes no    *)
(* part; mockUsers, now and started (the calls made) are the state.        *)

\* the record of one awaited operation
Call(op, url, data, outcome) ==
    [step |-> "client", op |-> op, url |-> url, data |-> data,
     outcome |-> outcome, fixtureBefore |-> mockUsers]

UnknownUrl == <<"unknown">>

\* identifiers a script names: John Doe's, those of the users it created,
\* and one that never existed
TargetIds == {"1", MissingId} \cup (IdsOf(mockUsers) \ FixtureIds)

GetUrls == { <<"users">>, <<"metrics">>, <<"users", "1">>, <<"users", MissingId>>,
             UnknownUrl }
PostUrls == { <<"users">>, UnknownUrl }
ItemUrls == { <<"users", id>> : id \in TargetIds } \cup { UnknownUrl }

\* put reads the fields of its payload; data: unknown lets null through
PutPayloads == PatchInputs \cup { Undefined }

ClientInit ==
    /\ state = initialState
    /\ mockUsers = initialMockUsers
    /\ client \in {"mock", "impl"}
    /\ inflight = <<>>
    /\ now = ClockStart
    /\ started = 0
    /\ page = NoPage
    /\ last = [Call("init", <<>>, Undefined, Resolved(NoResponse)) EXCEPT !.step = "init"]

\* the awaited promise has settled as r, ms after the call
Return(op, url, data, ms, r) ==
    /\ mockUsers' = r.fixture
    /\ now' = DueAt(now, ms)
    /\ started' = started + 1
    /\ last' = Call(op, url, data, r.outcome)
    /\ UNCHANGED <<state, client, inflight, page>>

clientGet ==
    /\ started < MaxCalls
    /\ \E url \in GetUrls : \E r \in apiClient_get(url) :
          Return("get", url, Undefined, GetDelay, r)

clientPost ==
    /\ started < MaxCalls
    /\ \E url \in PostUrls, data \in FormInputs :
          \E r \in apiClient_post(url, data, DueAt(now, WriteDelay)) :
              Return("post", url, data, WriteDelay, r)

clientPut ==
    /\ started < MaxCalls
    /\ \E url \in ItemUrls, data \in PutPayloads : \E r \in apiClient_put(url, data) :
          Return("put", url, data, WriteDelay, r)

clientDelete ==
    /\ started < MaxCalls
    /\ \E url \in ItemUrls : \E r \in apiClient_delete(url) :
          Return("delete", url, Undefined, WriteDelay, r)

ClientNext ==
    \/ clientGet
    \/ clientPost
    \/ clientPut
    \/ clientDelete

ClientSpec == ClientInit /\ [][ClientNext]_vars

----------------------------------------------------------------------------
(* The reducer alone, DashboardProvider.tsx:16-54: dispatch applies it to  *)
(* the state with any action of DashboardAction, whoever the caller is.    *)
(* started counts the dispatches; the fixture stays as it is.              *)

\* actions of every type with payloads that differ from one another, and
\* one whose type the reducer does not know (its default branch)
DispatchInputs ==
    << Action("SET_LOADING", TRUE), Action("SET_LOADING", FALSE),
       Action("SET_ERROR", Some("Failed to load users")), Action("SET_ERROR", Null),
       Action("SET_USERS", FixtureRef), Action("SET_USERS", Own(<<testUser>>)),
       Action("SET_METRICS", mockMetrics), Action("SET_METRICS", <<>>),
       Action("SELECT_USER", Some(initialMockUsers[1])), Action("SELECT_USER", Null),
       Action("ADD_USER", testUser),
       Action("UPDATE_USER", [testUser EXCEPT !.name = "X"]),
       Action("DELETE_USER", "1"), Action("DELETE_USER", MissingId),
       Action("RESET", Null) >>

\* the record of one dispatch: the action and the state it was applied to
Dispatched(step, action) == [step |-> step, action |-> action, before |-> state]

ReducerInit ==
    /\ state = initialState
    /\ mockUsers = initialMockUsers
    /\ client = "mock"
    /\ inflight = <<>>
    /\ now = ClockStart
    /\ started = 0
    /\ page = NoPage
    /\ last = Dispatched("init", Action("INIT", Null))

dispatch ==
    /\ started < MaxDispatches
    /\ \E n \in 1..Len(DispatchInputs) :
          /\ state' = dashboardReducer(state, DispatchInputs[n], mockUsers)
          /\ last' = Dispatched("dispatch", DispatchInputs[n])
    /\ started' = started + 1
    /\ UNCHANGED <<mockUsers, client, inflight, now, page>>

ReducerNext == dispatch

ReducerSpec == ReducerInit /\ [][ReducerNext]_vars

----------------------------------------------------------------------------
(* The observable snapshot *)

IsLoading == state.isLoading
Error == state.error
SelectedUser == state.selectedUser
Metrics == state.metrics

TypeOK ==
    /\ state.isLoading \in BOOLEAN
    /\ Len(state.error) <= 1
    /\ Len(state.selectedUser) <= 1
    /\ Len(inflight) <= MaxInFlight
    /\ started <= MaxIntents

----------------------------------------------------------------------------
(* Vocabulary of the properties *)

Current == Snapshot(state, mockUsers)

\* the step taken last dispatched an action of this type
Did(type) == \E k \in 1..Len(last.dispatched) : last.dispatched[k].type = type

CountOf(type) == Cardinality({ k \in 1..Len(last.dispatched) : last.dispatched[k].type = type })

IsSetLoading(action, flag) == action.type = "SET_LOADING" /\ action.payload = flag

Called == last.step = "call"
SettledStep == last.step = "settle"

\* the call of the step taken last ended in a failure envelope or a rejection
Failed == SettledStep /\ (last.outcome.rejected \/ ~last.outcome.response.success)

NoDuplicateIds(seq) == \A i, j \in 1..Len(seq) : i # j => seq[i].id # seq[j].id

\* the selected user, if any, names an identifier of the collection
Consistent(snap) ==
    snap.selectedUser # Null => snap.selectedUser[1].id \in IdsOf(snap.users)

Fallback(op) ==
    CASE op = "loadUsers" -> "Failed to load users"
      [] op = "loadMetrics" -> "Failed to load metrics"
      [] op = "addUser" -> "Failed to create user"
      [] op = "updateUser" -> "Failed to update user"
      [] op = "deleteUser" -> "Failed to delete user"

----------------------------------------------------------------------------
(* C1 as stated: in every reachable state, a non-null selectedUser names   *)
(* an identifier present in users.  selectUser stores any user it is       *)
(* given: this fails.                                                      *)
C1_SelectedAlwaysInUsers == Consistent(Current)

(* C1, amended: every step other than a selectUser call and a set-users    *)
(* transition keeps the property: if selectedUser was null or named an     *)
(* identifier of users before the step, it does so after it.               *)
C1_SelectionPreserved ==
    (last.step # "init" /\ ~Did("SELECT_USER") /\ ~Did("SET_USERS")
        /\ Consistent(last.before))
    => Consistent(Current)

\* a deleteUser of the selected, listed user has succeeded and cleared it
C1_Witness ==
    /\ SettledStep /\ Did("DELETE_USER")
    /\ last.before.selectedUser # Null
    /\ last.before.selectedUser[1].id = last.id
    /\ last.id \in IdsOf(last.before.users)
    /\ state.selectedUser = Null

(* C2: when updateUser(id, patch) succeeds while the selected user is the  *)
(* listed entry with that id, selectedUser afterwards is the updated       *)
(* entity, which is the entry of users with that id.                       *)
C2_SelectionRefreshedOnUpdate ==
    (/\ SettledStep /\ last.op = "updateUser" /\ Did("UPDATE_USER")
     /\ last.before.selectedUser # Null
     /\ last.before.selectedUser[1].id = last.id
     /\ \E i \in 1..Len(last.before.users) :
            last.before.users[i] = last.before.selectedUser[1])
    => /\ state.selectedUser = last.outcome.response.data
       /\ \E i \in 1..Len(Current.users) : Current.users[i] = state.selectedUser[1]

(* C3: against the in-memory client no two entries of users share an       *)
(* identifier, in any reachable state.                                     *)
C3_UniqueIds == client = "mock" => NoDuplicateIds(Current.users)

(* C4: a successful create on the in-memory client returns an identifier   *)
(* that no entry already in the fixture has: after the push it occurs      *)
(* once in the fixture.                                                    *)
C4_FreshIdentifier ==
    (client = "mock" /\ SettledStep /\ last.op = "addUser" /\ Did("ADD_USER"))
    => Cardinality({ i \in 1..Len(mockUsers) :
                        mockUsers[i].id = last.outcome.response.data[1].id }) = 1

(* C5: a successful addUser appends exactly the created entity to users,   *)
(* leaves the earlier entries as they were, and isLoading is false after.  *)
C5_AddAppendsOne ==
    (SettledStep /\ last.op = "addUser" /\ Did("ADD_USER"))
    => /\ Current.users = Append(last.before.users, last.outcome.response.data[1])
       /\ ~state.isLoading

(* C6: while any intent awaits its client call, isLoading is true.         *)
C6_LoadingWhileInFlight == inflight # <<>> => state.isLoading

(* C7: whenever no intent is in flight, isLoading is false.                *)
C7_IdleNotLoading == inflight = <<>> => ~state.isLoading

\* the only intent in flight has ended in a rejected call
C7_Witness ==
    /\ SettledStep /\ last.outcome.rejected
    /\ inflight = <<>> /\ last.before.isLoading /\ ~state.isLoading

(* C8: an intent dispatches set-loading(true) once, first, before its call *)
(* is issued, and set-loading(false) once, last, after the call settles,   *)
(* whatever the outcome; started from idle it turns isLoading from false   *)
(* to true, its continuation leaves it false, and selectUser in between    *)
(* does not touch it.                                                      *)
C8_LoadingBracket ==
    /\ Called =>
          /\ IsSetLoading(last.dispatched[1], TRUE)
          /\ CountOf("SET_LOADING") = 1
          /\ state.isLoading
          /\ (Len(inflight) = 1 => ~last.before.isLoading)
    /\ SettledStep =>
          /\ IsSetLoading(last.dispatched[Len(last.dispatched)], FALSE)
          /\ CountOf("SET_LOADING") = 1
          /\ ~state.isLoading
    /\ last.step = "select" => state.isLoading = last.before.isLoading

\* a mutating intent that was loading has ended in a failure envelope
C8_Witness ==
    /\ SettledStep /\ last.op = "deleteUser" /\ Failed /\ ~last.outcome.rejected
    /\ last.before.isLoading /\ ~state.isLoading

(* C9: starting an asynchronous intent leaves error null, whatever an      *)
(* earlier intent recorded; error holds at most one message.               *)
C9_ErrorClearedOnStart ==
    /\ Called => state.error = Null
    /\ Len(state.error) <= 1

\* an intent was started while an earlier intent's error was showing
C9_Witness == Called /\ last.before.error # Null /\ state.error = Null

(* C10: an intent whose call ends in a failure envelope or a rejection     *)
(* leaves users and metrics as they were, and error is the envelope's      *)
(* message, the intent's fallback when that is empty, the rejection's      *)
(* message, or 'Unknown error' for a rejection that is no Error.           *)
C10_FailureLeavesCollections ==
    Failed =>
        /\ Current.users = last.before.users
        /\ Current.metrics = last.before.metrics
        /\ state.error =
              Some(IF last.outcome.rejected
                   THEN IF last.outcome.thrown.isError
                        THEN last.outcome.thrown.message ELSE "Unknown error"
                   ELSE IF last.outcome.response.message # ""
                        THEN last.outcome.response.message ELSE Fallback(last.op))

\* loadUsers over a loaded collection has ended in a failure envelope
C10_Witness ==
    /\ Failed /\ last.op = "loadUsers" /\ ~last.outcome.rejected
    /\ last.before.users # <<>>
    /\ state.error = Some(last.outcome.response.message)

\* the intent of the step taken last went through its catch block: its call
\* rejected, or the envelope was no success, or (all but deleteUser) the
\* envelope carried no data
IntentFailed ==
    /\ SettledStep
    /\ \/ last.outcome.rejected
       \/ ~last.outcome.response.success
       \/ last.op # "deleteUser" /\ last.outcome.response.data = Null

Mutating == {"addUser", "updateUser", "deleteUser"}

(* C11: on failure addUser, updateUser and deleteUser record a message in   *)
(* error, reset isLoading and re-raise to their caller; loadUsers and       *)
(* loadMetrics record the message and reset isLoading but complete          *)
(* normally; an intent that did not fail never raises.                      *)
C11_MutatingIntentsRethrow ==
    SettledStep =>
        /\ IntentFailed =>
              /\ state.error # Null
              /\ state.error = last.dispatched[Len(last.dispatched) - 1].payload
              /\ ~state.isLoading
        /\ last.rethrown <=> IntentFailed /\ last.op \in Mutating

\* addUser has failed and its promise rejected, with the message recorded
C11_Witness ==
    /\ IntentFailed /\ last.op = "addUser" /\ last.rethrown
    /\ state.error # Null /\ ~state.isLoading

(* C12: on the in-memory client, deleteUser(id) for an id that is not in    *)
(* the fixture yields a failure envelope, leaves users and the fixture as   *)
(* they were, sets error to a non-null message and leaves isLoading false;  *)
(* every repetition ends the same way.                                      *)
C12_DeleteMissingFails ==
    (/\ SettledStep /\ client = "mock" /\ last.op = "deleteUser"
     /\ last.id \notin IdsOf(last.fixtureBefore)) =>
        /\ ~last.outcome.rejected
        /\ ~last.outcome.response.success
        /\ last.outcome.response.data = Null
        /\ Current.users = last.before.users
        /\ mockUsers = last.fixtureBefore
        /\ state.error = Some("User not found")
        /\ ~state.isLoading

\* deleteUser of an absent id has failed over a loaded collection, which
\* stays as it was
C12_Witness ==
    /\ SettledStep /\ client = "mock" /\ last.op = "deleteUser"
    /\ last.id = MissingId
    /\ last.before.users # <<>>
    /\ Current.users = last.before.users
    /\ state.error # Null

(* C13: a successful deleteUser(id) while the selected user has that id     *)
(* leaves selectedUser null and no entry with that id in users; a           *)
(* successful deleteUser of any other id leaves selectedUser as it was.     *)
C13_DeleteClearsMatchingSelection ==
    (SettledStep /\ last.op = "deleteUser" /\ ~IntentFailed) =>
        /\ last.id \notin IdsOf(Current.users)
        /\ IF last.before.selectedUser # Null
              /\ last.before.selectedUser[1].id = last.id
           THEN state.selectedUser = Null
           ELSE state.selectedUser = last.before.selectedUser

\* a user other than the deleted one was selected and stays selected
C13_Witness ==
    /\ SettledStep /\ last.op = "deleteUser" /\ ~IntentFailed
    /\ last.before.selectedUser # Null
    /\ last.before.selectedUser[1].id # last.id
    /\ last.id \in IdsOf(last.before.users)
    /\ state.selectedUser = last.before.selectedUser

\* the value a field of the merged entity must have
Merged(opt, prior) == IF opt = Null THEN prior ELSE opt[1]

(* C14: update on the in-memory client returns, and stores in the fixture,  *)
(* the prior entity with only the fields named in the payload replaced: id, *)
(* createdAt, avatar and lastLogin stay, an absent field keeps its prior    *)
(* value, and the other entries stay; for an id that is not in the fixture  *)
(* it returns a failure envelope and the fixture is unchanged.              *)
C14_PutMergesPartialPayload ==
    (SettledStep /\ client = "mock" /\ last.op = "updateUser") =>
        LET fb == last.fixtureBefore
            patch == last.data[1]
            response == last.outcome.response
        IN IF last.id \in IdsOf(fb)
           THEN \E k \in 1..Len(fb) :
                   /\ fb[k].id = last.id
                   /\ \A j \in 1..(k-1) : fb[j].id # last.id
                   /\ response.success /\ response.data # Null
                   /\ LET u == response.data[1]
                      IN /\ u.id = fb[k].id
                         /\ u.createdAt = fb[k].createdAt
                         /\ u.avatar = fb[k].avatar
                         /\ u.lastLogin = fb[k].lastLogin
                         /\ u.name = Merged(patch.name, fb[k].name)
                         /\ u.email = Merged(patch.email, fb[k].email)
                         /\ u.role = Merged(patch.role, fb[k].role)
                         /\ u.isActive = Merged(patch.isActive, fb[k].isActive)
                         /\ Len(mockUsers) = Len(fb)
                         /\ mockUsers[k] = u
                         /\ \A j \in 1..Len(fb) : j # k => mockUsers[j] = fb[j]
           ELSE /\ ~response.success /\ response.data = Null
                /\ mockUsers = fb

\* a payload naming name and isActive only has been merged into an active
\* entry whose email and role it leaves alone
C14_Witness ==
    /\ SettledStep /\ client = "mock" /\ last.op = "updateUser"
    /\ last.id \in IdsOf(last.fixtureBefore)
    /\ last.data[1].email = Null /\ last.data[1].isActive = Some(FALSE)
    /\ last.fixtureBefore[1].id = last.id /\ last.fixtureBefore[1].isActive
    /\ ~mockUsers[1].isActive /\ mockUsers[1].email = last.fixtureBefore[1].email

\* the step taken last is an operation a script awaited on the client
ClientCall == last.step = "client"

\* seq without the entries that carry id
Without(seq, id) ==
    LET keep == { k \in 1..Len(seq) : seq[k].id # id }
        Nth[n \in 0..Len(seq)] ==
            IF n = 0 THEN 0
            ELSE CHOOSE k \in keep :
                    Cardinality({ j \in keep : j <= k }) = n
    IN [n \in 1..Cardinality(keep) |-> seq[Nth[n]]]

\* seq with the entries that carry id overlaid by the payload's fields
Updated(seq, id, patch) ==
    [k \in 1..Len(seq) |->
        IF seq[k].id = id
        THEN [seq[k] EXCEPT !.name = Merged(patch.name, @),
                            !.email = Merged(patch.email, @),
                            !.role = Merged(patch.role, @),
                            !.isActive = Merged(patch.isActive, @)]
        ELSE seq[k]]

\* what the collection of users is after one operation on the collection
\* live: created users join at the end, deleted ones leave, an updated one
\* takes its update in place, and nothing else changes it
LiveAfter(live, call) ==
    CASE call.op = "post" /\ call.url = <<"users">> ->
            Append(live, call.outcome.response.data[1])
      [] call.op = "put" /\ StartsWithUsers(call.url) /\ call.data # Undefined ->
            Updated(live, call.url[2], call.data)
      [] call.op = "delete" /\ StartsWithUsers(call.url) ->
            Without(live, call.url[2])
      [] OTHER -> live

(* C15: on the in-memory client, with operations issued one after another, *)
(* every create, update and delete takes the collection to the one with    *)
(* the created user added at the end, the updated one overlaid in place,   *)
(* the deleted one removed; ids stay distinct, so that a fetch of "/users" *)
(* returns exactly the users created or initially present and not deleted, *)
(* each with its latest update, in creation order.                         *)
C15_FetchReflectsWrites ==
    (ClientCall /\ client = "mock") =>
        /\ mockUsers = LiveAfter(last.fixtureBefore, last)
        /\ NoDuplicateIds(mockUsers)
        /\ (last.op = "post" /\ last.url = <<"users">>) =>
              /\ last.outcome.response.data[1].id \notin IdsOf(last.fixtureBefore)
              /\ last.outcome.response.data[1].name = last.data.name
        /\ (last.op = "get" /\ last.url = <<"users">>) =>
              /\ last.outcome.response.success
              /\ last.outcome.response.data # Null
              /\ Elems(last.outcome.response.data[1], mockUsers) = last.fixtureBefore

\* a fetch after an update of John Doe and a create shows both
C15_Witness ==
    /\ ClientCall /\ client = "mock"
    /\ last.op = "get" /\ last.url = <<"users">>
    /\ Len(mockUsers) = Len(initialMockUsers) + 1
    /\ mockUsers[1].id = "1" /\ mockUsers[1].name = "X"
    /\ \E data \in FormInputs : mockUsers[Len(mockUsers)].name = data.name

(* C16 as stated: every operation of both clients settles with an envelope  *)
(* and never rejects, and a failure envelope has a null payload and a       *)
(* non-empty message.  MockApiClient.put rejects for a null payload.        *)
C16_AlwaysAnEnvelope ==
    ClientCall =>
        /\ ~last.outcome.rejected
        /\ ~last.outcome.response.success =>
              /\ last.outcome.response.data = Null
              /\ last.outcome.response.message # ""

(* C17 as stated: fetch on the in-memory client returns the collection for  *)
(* "/users", the user for "/users/{id}" when the fixture holds the id, and  *)
(* success=false with a message for a path naming no resource.              *)
(* MockApiClient.get knows "/users" and "/metrics" only.                    *)
C17_FetchItemPath ==
    (ClientCall /\ client = "mock" /\ last.op = "get") =>
        LET response == last.outcome.response
        IN IF last.url = <<"users">>
           THEN response.success /\ response.data = Some(FixtureRef)
           ELSE IF last.url = <<"metrics">>
           THEN response.success
           ELSE IF StartsWithUsers(last.url) /\ last.url[2] \in IdsOf(last.fixtureBefore)
           THEN /\ response.success
                /\ response.data # Null
                /\ response.data[1] \in { last.fixtureBefore[k] : k \in 1..Len(last.fixtureBefore) }
                /\ response.data[1].id = last.url[2]
           ELSE ~response.success /\ response.message # ""

Fields == {"users", "metrics", "isLoading", "error", "selectedUser"}

\* the fields a transition is documented to change
Documented(type) ==
    CASE type = "SET_LOADING" -> {"isLoading"}
      [] type = "SET_ERROR" -> {"error"}
      [] type = "SET_USERS" -> {"users"}
      [] type = "SET_METRICS" -> {"metrics"}
      [] type = "SELECT_USER" -> {"selectedUser"}
      [] type = "ADD_USER" -> {"users"}
      [] type = "UPDATE_USER" -> {"users", "selectedUser"}
      [] type = "DELETE_USER" -> {"users", "selectedUser"}
      [] OTHER -> {}

ChangedFields(s, t) == { f \in Fields : s[f] # t[f] }

(* C18: every reducer transition changes no field outside its documented   *)
(* ones (SET_LOADING isLoading, SET_ERROR error, SET_USERS users,           *)
(* SET_METRICS metrics, SELECT_USER selectedUser, ADD_USER users,           *)
(* UPDATE_USER users and selectedUser, DELETE_USER users and selectedUser)  *)
(* and carries the others over, and an action of no type the reducer knows  *)
(* returns the state it was given.                                          *)
C18_ReducerFrame ==
    last.step = "dispatch" =>
        /\ ChangedFields(last.before, state) \subseteq Documented(last.action.type)
        /\ DOMAIN state = Fields
        /\ Documented(last.action.type) = {} => state = last.before

\* DELETE_USER has removed the selected entry from a state that holds
\* metrics and users: users and selectedUser changed, the rest stayed
C18_Witness ==
    /\ last.step = "dispatch" /\ last.action.type = "DELETE_USER"
    /\ last.before.metrics # <<>>
    /\ ChangedFields(last.before, state) = {"users", "selectedUser"}

(* C19 as stated: the users collection the container shows changes only by *)
(* a dispatched action: when a client call has returned and nothing has     *)
(* been dispatched yet, the snapshot shows the users it showed before.      *)
(* The in-memory client writes to the array the snapshot holds.             *)
C19_UsersChangeOnlyByDispatch ==
    SettledStep => last.afterCall = last.before.users

(* C20: metrics changes only in the step where a loadMetrics intent         *)
(* succeeds, and is then the fetched collection as a whole; every other     *)
(* step (selectUser, loadUsers, addUser, updateUser, deleteUser, a failed   *)
(* loadMetrics, the start of any intent) leaves metrics as it was.          *)
C20_MetricsOnlyByLoadMetrics ==
    IF SettledStep /\ last.op = "loadMetrics" /\ ~IntentFailed
    THEN state.metrics = last.outcome.response.data[1]
    ELSE state.metrics = last.before.metrics

\* a successful loadMetrics has replaced an empty collection while users
\* were loaded
C20_Witness ==
    /\ SettledStep /\ last.op = "loadMetrics" /\ ~IntentFailed
    /\ last.before.metrics = <<>> /\ state.metrics # <<>>
    /\ last.before.users # <<>>

\* seq with every entry that carries the id of user replaced by user
Replaced(seq, user) ==
    [k \in 1..Len(seq) |-> IF seq[k].id = user.id THEN user ELSE seq[k]]

(* C21: the collection transition of an intent is applied in the step in   *)
(* which its client call settles, to the state as the intents settled       *)
(* before it left it, whatever the order of invocation; for updateUser(id)  *)
(* and deleteUser(id) in flight together, users after each settle step is   *)
(* that intent's transition of the users before it, so the one that         *)
(* settles last decides.                                                    *)
C21_TransitionsInSettleOrder ==
    (SettledStep /\ ~IntentFailed) =>
        /\ last.op = "updateUser" =>
              /\ Did("UPDATE_USER")
              /\ Current.users = Replaced(last.before.users, last.outcome.response.data[1])
        /\ last.op = "deleteUser" =>
              /\ Did("DELETE_USER")
              /\ Current.users = Without(last.before.users, last.id)
        /\ last.op = "addUser" => Did("ADD_USER")
        /\ last.op = "loadUsers" => Did("SET_USERS")

\* deleteUser(id) has settled on a remote client, where calls settle in
\* any order, and removed the entry while an updateUser(id) is in flight
C21_Witness ==
    /\ SettledStep /\ ~IntentFailed /\ last.op = "deleteUser" /\ client # "mock"
    /\ inflight # <<>> /\ inflight[1].op = "updateUser" /\ inflight[1].id = last.id
    /\ last.id \in IdsOf(last.before.users)
    /\ last.id \notin IdsOf(Current.users)

(* C23: the initial state of the container has empty users and metrics,    *)
(* selectedUser null, isLoading false and error null, and nothing is in     *)
(* flight, as long as no intent has been invoked.                           *)
C23_InitialState ==
    last.step = "init" =>
        /\ Current.users = <<>>
        /\ state.metrics = <<>>
        /\ state.selectedUser = Null
        /\ state.isLoading = FALSE
        /\ state.error = Null
        /\ inflight = <<>>

\* the container before any intent
C23_Witness == last.step = "init" /\ started = 0 /\ state = initialState

(* C26: selectUser(u) dispatches SELECT_USER alone: selectedUser is u (or   *)
(* null) when it returns, no client operation is called (the fixture and    *)
(* the intents in flight are as before), and users, metrics, isLoading and  *)
(* error are unchanged.                                                     *)
C26_SelectIsSynchronous ==
    last.step = "select" =>
        /\ Len(last.dispatched) = 1
        /\ last.dispatched[1].type = "SELECT_USER"
        /\ state.selectedUser = last.dispatched[1].payload
        /\ Current.users = last.before.users
        /\ state.metrics = last.before.metrics
        /\ state.isLoading = last.before.isLoading
        /\ state.error = last.before.error
        /\ mockUsers = last.fixtureBefore
        /\ KeyBag(inflight) = last.keysBefore

\* a user was selected while an intent was in flight
C26_Witness ==
    /\ last.step = "select" /\ state.selectedUser # Null
    /\ last.before.selectedUser = Null
    /\ DOMAIN last.keysBefore # {} /\ state.isLoading

(* C30 as stated: UPDATE_USER and DELETE_USER for an id that users does not *)
(* hold leave users and selectedUser unchanged.  DELETE_USER clears a       *)
(* selection that carries the id whether users holds it or not.             *)
C30_AbsentIdLeavesState ==
    (/\ SettledStep /\ (Did("UPDATE_USER") \/ Did("DELETE_USER"))
     /\ last.id \notin IdsOf(last.before.users)) =>
        /\ Current.users = last.before.users
        /\ state.selectedUser = last.before.selectedUser

(* C30: UPDATE_USER and DELETE_USER never add an entry: users afterwards    *)
(* holds no id it did not hold and is no longer; for an id that users does  *)
(* not hold both leave users unchanged, UPDATE_USER leaves selectedUser     *)
(* unchanged and DELETE_USER clears it only if it carries the id; so an     *)
(* updateUser settling after the id was removed does not bring it back.     *)
C30_NoEntryAdded ==
    (SettledStep /\ (Did("UPDATE_USER") \/ Did("DELETE_USER"))) =>
        /\ IdsOf(Current.users) \subseteq IdsOf(last.before.users)
        /\ Len(Current.users) <= Len(last.before.users)
        /\ last.id \notin IdsOf(last.before.users) =>
              /\ Current.users = last.before.users
              /\ state.selectedUser =
                    IF /\ Did("DELETE_USER")
                       /\ last.before.selectedUser # Null
                       /\ last.before.selectedUser[1].id = last.id
                    THEN Null ELSE last.before.selectedUser

\* updateUser has succeeded for an id that a loaded collection does not hold
C30_Witness ==
    /\ SettledStep /\ Did("UPDATE_USER")
    /\ last.before.users # <<>>
    /\ last.id \notin IdsOf(last.before.users)
    /\ Current.users = last.before.users

\* the transition an intent applies when it succeeds
TransitionOf(op) ==
    CASE op = "loadUsers" -> "SET_USERS"
      [] op = "loadMetrics" -> "SET_METRICS"
      [] op = "addUser" -> "ADD_USER"
      [] op = "updateUser" -> "UPDATE_USER"
      [] op = "deleteUser" -> "DELETE_USER"

\* a bag of intents with n more of key
Plus(bag, key, n) ==
    [k \in DOMAIN bag \cup {key} |-> (IF k \in DOMAIN bag THEN bag[k] ELSE 0)
                                      + (IF k = key THEN n ELSE 0)]

\* an intent leaves the intents in flight only in the step that runs its own
\* continuation, which applies its transition or records its error and ends
\* with SET_LOADING false; every other intent stays in flight
RunsToCompletion ==
    /\ last.step \in {"init", "select"} => KeyBag(inflight) = last.keysBefore
    /\ last.step = "call" =>
          KeyBag(inflight) = Plus(last.keysBefore, <<last.op, last.id>>, 1)
    /\ last.step = "settle" =>
          /\ <<last.op, last.id>> \in DOMAIN last.keysBefore
          /\ Plus(KeyBag(inflight), <<last.op, last.id>>, 1) = last.keysBefore
          /\ IF IntentFailed THEN Did("SET_ERROR") ELSE Did(TransitionOf(last.op))
          /\ IsSetLoading(last.dispatched[Len(last.dispatched)], FALSE)

(* C22: no intent is cancelled: an intent in flight stays in flight until   *)
(* the step in which its own continuation runs, applies its transition (on  *)
(* success) or records its error (on failure) and dispatches its final      *)
(* SET_LOADING false, whatever was started after it; and as long as intents *)
(* are in flight the continuation of one of them is ready to run as soon as *)
(* its client call settles.                                                 *)
C22_NoIntentCancelled ==
    /\ RunsToCompletion
    /\ inflight # <<>> => \E i \in 1..Len(inflight) : CanSettle(i)

\* updateUser(id) has applied its transition while a deleteUser(id) started
\* after it (its timer is due later) is in flight
C22_Witness ==
    /\ SettledStep /\ last.op = "updateUser" /\ Did("UPDATE_USER")
    /\ client = "mock" /\ inflight # <<>> /\ inflight[1].due > now /\ inflight[1].op = "deleteUser" /\ inflight[1].id = last.id
    /\ IsSetLoading(last.dispatched[Len(last.dispatched)], FALSE)

----------------------------------------------------------------------------
(* Order of the users collection *)

\* the identifiers of a collection, in its order
IdSeq(seq) == [k \in 1..Len(seq) |-> seq[k].id]

\* the users of the state the last dispatch was applied to, and of its result
UsersBefore == Elems(last.before.users, mockUsers)
UsersAfter == Elems(state.users, mockUsers)

(* C27: the users collection keeps insertion order under every transition:  *)
(* ADD_USER puts the new entry last behind the entries there were, in their *)
(* order; UPDATE_USER leaves every position with the identifier it had and  *)
(* puts the payload where that identifier was; DELETE_USER leaves the       *)
(* remaining entries in their relative order.                               *)
C27_InsertionOrderKept ==
    last.step = "dispatch" =>
        /\ last.action.type = "ADD_USER" =>
              UsersAfter = Append(UsersBefore, last.action.payload)
        /\ last.action.type = "UPDATE_USER" =>
              /\ IdSeq(UsersAfter) = IdSeq(UsersBefore)
              /\ \A k \in 1..Len(UsersBefore) :
                    UsersAfter[k] = IF UsersBefore[k].id = last.action.payload.id
                                    THEN last.action.payload ELSE UsersBefore[k]
        /\ last.action.type = "DELETE_USER" =>
              UsersAfter = Without(UsersBefore, last.action.payload)

\* UPDATE_USER has replaced the first of three entries, which stays first
C27_Witness ==
    /\ last.step = "dispatch" /\ last.action.type = "UPDATE_USER"
    /\ Len(UsersBefore) = 3
    /\ UsersBefore[1].id = last.action.payload.id
    /\ UsersAfter[1] = last.action.payload
    /\ UsersAfter[1] # UsersBefore[1]
    /\ UsersAfter[3] = UsersBefore[3]

----------------------------------------------------------------------------
(* A caller that awaits every intent, against the in-memory client: it     *)
(* loads the users first and then adds, updates and deletes, each intent   *)
(* invoked once the one before it has completed.                           *)

AwaitedInit == Init /\ client = "mock"

awaitedLoadUsers == started = 0 /\ loadUsers

\* the time the caller lets pass between the completion of one intent and
\* the invocation of the next
Pauses == {0, Gap}

awaitedAddUser ==
    /\ started >= 1 /\ inflight = <<>>
    /\ \E wait \in Pauses, userData \in FormInputs :
          Begin("addUser", "", Some(userData), WriteDelay, wait)

awaitedUpdateUser ==
    /\ started >= 1 /\ inflight = <<>>
    /\ \E wait \in Pauses, id \in UpdateIds, userData \in PatchInputs :
          Begin("updateUser", id, Some(userData), WriteDelay, wait)

awaitedDeleteUser ==
    /\ started >= 1 /\ inflight = <<>>
    /\ \E wait \in Pauses, id \in DeleteIds :
          Begin("deleteUser", id, Null, WriteDelay, wait)

AwaitedNext ==
    \/ awaitedLoadUsers
    \/ awaitedAddUser
    \/ awaitedUpdateUser
    \/ awaitedDeleteUser
    \/ loadUsersResume
    \/ addUserResume
    \/ updateUserResume
    \/ deleteUserResume

AwaitedSpec == AwaitedInit /\ [][AwaitedNext]_vars

(* C29 as stated: against the in-memory client, after a successful         *)
(* loadUsers followed by addUser, updateUser and deleteUser intents each    *)
(* awaited before the next, the users collection of the container equals    *)
(* the fixture collection: the same entries, each once, in the same order.  *)
(* The reducer appends the created user to the array the client has         *)
(* already pushed it to.                                                    *)
C29_ContainerEqualsFixture ==
    (inflight = <<>> /\ started >= 1) => Current.users = mockUsers

----------------------------------------------------------------------------
(* The Dashboard page rendered inside the provider, its user doing nothing *)
(* (Dashboard.tsx).  The provider renders again after every step that     *)
(* dispatched, since the reducer returns a new state object for every      *)
(* action; each render builds a new actions object (DashboardProvider.tsx  *)
(* line 80), and the page's effect, which depends on it, runs again.       *)

\* the record of one step of a page: failed tells that the intent that
\* settled recorded an error, rejected that its promise rejected, before
\* is the page when the step began
PageStep(step, op, failed, rejected) ==
    [step |-> step, op |-> op, failed |-> failed, rejected |-> rejected,
     before |-> page]

\* dirty: the provider's state has changed since the page was rendered
DashboardPage(dirty) == [name |-> "Dashboard", dirty |-> dirty]

DashboardInit ==
    /\ state = initialState
    /\ mockUsers = initialMockUsers
    /\ client \in {"mock", "impl", "stub"}
    /\ inflight = <<>>
    /\ now = ClockStart
    /\ started = 0
    /\ page = DashboardPage(TRUE)
    /\ last = PageStep("init", "", FALSE, FALSE)

\* the bound leaves room for n more intents
PageOpen(n, max) == Len(inflight) + n <= max

\* The pages never read the clock (they create no user), so their time is
\* kept relative to the present: now stays where it is, and when a timer
\* fires the time that has passed is taken off the delays still running.
Later(seq, elapsed) == [k \in 1..Len(seq) |-> [seq[k] EXCEPT !.due = @ - elapsed]]

\* Dashboard.tsx:18-21: the page is rendered and its effect runs
\* actions.loadUsers() and actions.loadMetrics(), each up to its await
dashboardRender ==
    /\ page.dirty
    /\ PageOpen(2, MaxPending)
    /\ state' = Dispatch(state, Prologue \o Prologue, mockUsers)
    /\ inflight' = inflight \o << Intent("loadUsers", "", Null, DueAt(now, GetDelay)),
                                  Intent("loadMetrics", "", Null, DueAt(now, GetDelay)) >>
    /\ page' = [page EXCEPT !.dirty = TRUE]
    /\ last' = PageStep("render", "effect", FALSE, FALSE)
    /\ UNCHANGED <<mockUsers, client, now, started>>

\* the continuation of intent i of a page once its call has settled as r
PageFinish(i, r, handled, rendered) ==
    /\ mockUsers' = r.fixture
    /\ state' = Dispatch(state, handled.dispatched, r.fixture)
    /\ inflight' = Later(Splice(inflight, i), Max(now, inflight[i].due) - now)
    /\ page' = rendered
    /\ last' = PageStep("settle", inflight[i].op,
                        handled.dispatched[1].type = "SET_ERROR", handled.rethrown)
    /\ UNCHANGED <<client, now, started>>

dashboardLoadUsersResume ==
    \E i \in Awaiting("loadUsers") : \E r \in apiClient_get(<<"users">>) :
        PageFinish(i, r, loadUsersSettled(r.outcome), [page EXCEPT !.dirty = TRUE])

dashboardLoadMetricsResume ==
    \E i \in Awaiting("loadMetrics") : \E r \in apiClient_get(<<"metrics">>) :
        PageFinish(i, r, loadMetricsSettled(r.outcome), [page EXCEPT !.dirty = TRUE])

DashboardNext ==
    \/ dashboardRender
    \/ dashboardLoadUsersResume
    \/ dashboardLoadMetricsResume

\* a pending render is carried out, and a call that can settle settles
DashboardSpec ==
    /\ DashboardInit
    /\ [][DashboardNext]_vars
    /\ WF_vars(dashboardRender)
    /\ WF_vars(dashboardLoadUsersResume)
    /\ WF_vars(dashboardLoadMetricsResume)

(* C25 as stated: driven by the Dashboard page, the container never has     *)
(* more than one client operation in flight against the in-memory fixture.  *)
(* The page's effect starts loadUsers and loadMetrics in the same turn.     *)
C25_OneOperationInFlight ==
    client = "mock" => Len(inflight) <= 1

\* no intent is in flight and no render is pending
Quiescent == inflight = <<>> /\ ~page.dirty

(* C28 as stated: after the Dashboard page has mounted, its user doing      *)
(* nothing further, the system reaches a quiescent state, no intent in      *)
(* flight and no render pending that would start further loads, and stays   *)
(* in it.  Every run of the effect dispatches, every dispatch renders the   *)
(* provider again, and every render runs the effect again.                  *)
C28_ReachesQuiescence == <>[]Quiescent

----------------------------------------------------------------------------
(* The UserDetails page rendered inside the provider at /users/:userId     *)
(* (UserDetails.tsx).  Its user toggles edit mode, changes the form and    *)
(* submits it, on a page that shows the state the provider holds.          *)

\* the identifiers a route may carry: John Doe's and the remote user's
RouteIds == {"1", remoteUser.id}

\* useState of formData, UserDetails.tsx:11-16
emptyForm == [name |-> "", email |-> "", role |-> "user", isActive |-> TRUE]

\* state.users.find(u => u.id === userId), UserDetails.tsx:18
FindUser(s, fx, id) ==
    LET users == Elems(s.users, fx)
        i == FindIndex(users, id)
    IN IF i = 0 THEN Null ELSE Some(users[i])

\* UserDetails.tsx:22-27
FormOf(user) ==
    [name |-> user.name, email |-> user.email, role |-> user.role,
     isActive |-> user.isActive]

\* the form data as the payload of put: every field is present
FullPatch(form) ==
    Patch(Some(form.name), Some(form.email), Some(form.role), Some(form.isActive))

\* handleInputChange, UserDetails.tsx:51-57: one field is overwritten
FormEdits(form) == { [form EXCEPT !.name = "X"], [form EXCEPT !.isActive = FALSE] }

\* fresh: the user object found has changed since the form was filled from it
UserDetailsPage(userId, dirty, isEditing, formData, fresh) ==
    [name |-> "UserDetails", userId |-> userId, dirty |-> dirty,
     isEditing |-> isEditing, formData |-> formData, fresh |-> fresh]

UserDetailsInit ==
    /\ state = initialState
    /\ mockUsers = initialMockUsers
    /\ client \in {"mock", "impl", "stub"}
    /\ inflight = <<>>
    /\ now = ClockStart
    /\ started = 0
    /\ \E userId \in RouteIds : page = UserDetailsPage(userId, TRUE, FALSE, emptyForm, TRUE)
    /\ last = [PageStep("init", "", FALSE, FALSE) EXCEPT !.before = NoPage]

\* The page is rendered after a change of the provider's state and its
\* effects run: the form is filled from a user object not seen before
\* (UserDetails.tsx:20-29), and loadUsers is called when no user is found
\* (31-35; the actions object is new in every render of the provider).
userDetailsRender ==
    LET user == FindUser(state, mockUsers, page.userId)
        synced == IF user # Null /\ page.fresh
                  THEN [page EXCEPT !.formData = FormOf(user[1]), !.fresh = FALSE]
                  ELSE page
    IN /\ page.dirty
       /\ IF user = Null
          THEN /\ PageOpen(1, MaxAwaited)
               /\ state' = Dispatch(state, Prologue, mockUsers)
               /\ inflight' = Append(inflight,
                                     Intent("loadUsers", "", Null, DueAt(now, GetDelay)))
               /\ page' = [synced EXCEPT !.dirty = TRUE]
          ELSE /\ page' = [synced EXCEPT !.dirty = FALSE]
               /\ UNCHANGED <<state, inflight>>
       /\ last' = PageStep("render", "effect", FALSE, FALSE)
       /\ UNCHANGED <<mockUsers, client, now, started>>

\* the page shows the provider's state and the user it found
Shown == ~page.dirty /\ FindUser(state, mockUsers, page.userId) # Null

\* UserDetails.tsx:72, the Edit / Cancel button
toggleEdit ==
    /\ Shown
    /\ page' = [page EXCEPT !.isEditing = ~@]
    /\ last' = PageStep("click", "toggleEdit", FALSE, FALSE)
    /\ UNCHANGED <<state, mockUsers, client, inflight, now, started>>

\* UserDetails.tsx:51-57
handleInputChange ==
    /\ Shown /\ page.isEditing
    /\ \E form \in FormEdits(page.formData) : page' = [page EXCEPT !.formData = form]
    /\ last' = PageStep("input", "handleInputChange", FALSE, FALSE)
    /\ UNCHANGED <<state, mockUsers, client, inflight, now, started>>

\* UserDetails.tsx:37-42 with DashboardProvider.tsx:156-162: the form is
\* submitted and updateUser(user.id, formData) runs up to its await
handleSubmit ==
    /\ Shown /\ page.isEditing
    /\ PageOpen(1, MaxAwaited)
    /\ state' = Dispatch(state, Prologue, mockUsers)
    /\ inflight' = Append(inflight,
                          Intent("updateUser", FindUser(state, mockUsers, page.userId)[1].id,
                                 Some(FullPatch(page.formData)), DueAt(now, WriteDelay)))
    /\ page' = [page EXCEPT !.dirty = TRUE]
    /\ last' = PageStep("submit", "updateUser", FALSE, FALSE)
    /\ UNCHANGED <<mockUsers, client, now, started>>

\* what the promise of updateUser resolves with: the async function has no
\* return statement (DashboardProvider.tsx:156, Promise<void>)
updateUserResult == Undefined

\* the page after an intent has settled: a render is pending, and the user
\* object is another one when the user has appeared, when UPDATE_USER has
\* put the response in its place, or when a remote client has fetched the
\* collection anew (the in-memory client hands out the objects it holds)
AfterSettle(pg, op, r, handled) ==
    LET before == FindUser(state, mockUsers, pg.userId)
        after == FindUser(Dispatch(state, handled.dispatched, r.fixture), r.fixture, pg.userId)
        ok == handled.dispatched[1].type # "SET_ERROR"
        renewed == /\ after # Null
                   /\ \/ before = Null
                      \/ ok /\ op = "updateUser"
                            /\ handled.dispatched[1].payload.id = pg.userId
                      \/ ok /\ op = "loadUsers" /\ client # "mock"
    IN [pg EXCEPT !.dirty = TRUE, !.fresh = @ \/ renewed]

userDetailsLoadUsersResume ==
    \E i \in Awaiting("loadUsers") : \E r \in apiClient_get(<<"users">>) :
        PageFinish(i, r, loadUsersSettled(r.outcome),
                   AfterSettle(page, "loadUsers", r, loadUsersSettled(r.outcome)))

\* UserDetails.tsx:42-48: the continuation of handleSubmit
SubmitSettled(pg, handled) ==
    IF handled.rethrown THEN pg
    ELSE IF updateUserResult # Undefined THEN [pg EXCEPT !.isEditing = FALSE]
    ELSE pg

userDetailsUpdateUserResume ==
    \E i \in Awaiting("updateUser") :
        \E r \in apiClient_put(<<"users", inflight[i].id>>, inflight[i].data[1]) :
            PageFinish(i, r, updateUserSettled(r.outcome),
                       SubmitSettled(AfterSettle(page, "updateUser", r,
                                                 updateUserSettled(r.outcome)),
                                     updateUserSettled(r.outcome)))

UserDetailsNext ==
    \/ userDetailsRender
    \/ toggleEdit
    \/ handleInputChange
    \/ handleSubmit
    \/ userDetailsLoadUsersResume
    \/ userDetailsUpdateUserResume

UserDetailsSpec == UserDetailsInit /\ [][UserDetailsNext]_vars

(* C24 as stated: when the updateUser intent started by submitting the edit *)
(* form completes successfully the page leaves edit mode, and when it       *)
(* rejects the page stays as it was.  The intent resolves with undefined,   *)
(* and handleSubmit leaves edit mode only for a result other than           *)
(* undefined.                                                               *)
C24_SubmitLeavesEditMode ==
    (last.step = "settle" /\ last.op = "updateUser") =>
        IF last.rejected
        THEN page.isEditing = last.before.isEditing
        ELSE ~page.isEditing
====
